---- MODULE Spec2Model ----
(***************************************************************************)
(* GATT server session of gatt/src/server.rs: the per-PDU dispatch of      *)
(* GattHandler, the event channel between the handler and Events, and the  *)
(* Outgoing handle (notify / indicate).                                    *)
(*                                                                         *)
(* The attribute Database (crate::database), Registration::build and the   *)
(* ATT transport (att::server) are collaborators whose code is not part of *)
(* server.rs; they are modelled by their contract: a Database call returns *)
(* Ok(value) or Err((handle, code)), the transport either is up or has     *)
(* ended, and the peer may or may not confirm an indication.               *)
(***************************************************************************)
EXTENDS Integers, Sequences, FiniteSets, TLC

(* ------------------------------ bounds -------------------------------- *)

\* number of operations in one session: the request PDUs the peer sends plus
\* the notify / indicate calls the application makes
MaxOps == 2

(* --------------------------- value domains ---------------------------- *)

\* attribute handles the peer addresses (0x0010, 0x002A)
Handles == {16, 42}

\* application tokens
Tokens == {"target", "battery"}

\* attribute values / payloads (byte strings)
Values == {<<22>>, <<90>>}

\* client_rx_mtu values proposed by the peer (u16)
Mtus == {23, 65535}

\* attribute (group) types of the range requests
AttrTypes == {10240}

\* The registrations a session is built from: the handle->token map of the
\* writable characteristics and the token->handle map of the characteristics
\* that can be notified or indicated.
Registrations ==
    { [write_tokens |-> (16 :> "target"),
       token_map    |-> ("battery" :> 42)],
      [write_tokens |-> (16 :> "battery" @@ 42 :> "target"),
       token_map    |-> ("target" :> 42 @@ "battery" :> 16)] }

(* ------------------------- Database contract -------------------------- *)

DbOk(body) == [ok |-> TRUE, handle |-> 0, code |-> "", body |-> body]

DbErr(h, e) == [ok |-> FALSE, handle |-> h, code |-> e, body |-> <<>>]

\* the (handle, error-code) failures a Database call can return
DbErrors ==
    { DbErr(16, "InvalidHandle"),
      DbErr(42, "WriteNotPermitted") }

\* attribute store of a freshly built Database
EmptyDb == [h \in Handles |-> <<>>]

RECURSIVE RangeEntries(_, _, _)
\* the (handle, data) entries of the handles s..=e, ascending
RangeEntries(store, s, e) ==
    IF s > e THEN <<>>
    ELSE (IF s \in Handles THEN << <<s, store[s]>> >> ELSE <<>>)
         \o RangeEntries(store, s + 1, e)

\* outcomes of find_information / read_by_type / read_by_group_type
DbRangeResults(store, s, e) ==
    (IF RangeEntries(store, s, e) # <<>>
        THEN {DbOk(RangeEntries(store, s, e))} ELSE {}) \cup DbErrors

\* outcomes of read
DbReadResults(store, h) == {DbOk(store[h])} \cup DbErrors

\* outcomes of write
DbWriteResults == {DbOk(<<>>)} \cup DbErrors

\* the store after a write with outcome res
DbAfterWrite(store, h, v, res) ==
    IF res.ok THEN [store EXCEPT ![h] = v] ELSE store

\* one recorded Database call
DbCall(op, h, e, authn, authz, res) ==
    [op |-> op, handle |-> h, ending |-> e,
     authenticated |-> authn, authorized |-> authz, result |-> res]

(* ------------------------------ packets ------------------------------- *)

ErrorResponse_new(h, e) ==
    [tag |-> "ErrorResponse", mtu |-> 0, handle |-> h, code |-> e, body |-> <<>>]

ExchangeMtuResponse_new(m) ==
    [tag |-> "ExchangeMtuResponse", mtu |-> m, handle |-> 0, code |-> "", body |-> <<>>]

ReadResponse_new(v) ==
    [tag |-> "ReadResponse", mtu |-> 0, handle |-> 0, code |-> "", body |-> v]

WriteResponse_new ==
    [tag |-> "WriteResponse", mtu |-> 0, handle |-> 0, code |-> "", body |-> <<>>]

\* r.into_iter().map(Into::into).collect(): each Database entry becomes one
\* item of the response
CollectResponse(tag, r) ==
    [tag |-> tag, mtu |-> 0, handle |-> 0, code |-> "",
     body |-> [i \in 1..Len(r) |-> [handle |-> r[i][1], data |-> r[i][2]]]]

Event_Write(token, payload) == [token |-> token, payload |-> payload]

\* Events::next has not returned anything yet
NextPending == [tag |-> "NoCall", event |-> <<>>]

(* ------------------------------- state -------------------------------- *)

VARIABLES
    write_tokens,   \* GattHandler.write_tokens : Handle -> T
    token_map,      \* Outgoing.token_map : T -> Handle
    db,             \* GattHandler.db
    events_tx,      \* TRUE while the handler (and its sender) is alive
    events_rx,      \* TRUE while Events (the receiver) is alive
    chan,           \* events buffered in the unbounded channel
    pc,             \* 0: the dispatch loop is between PDUs; i > 0: a write
                    \* handler is about to run its i-th step
    cur,            \* the dispatch in progress / the last one completed
    npdu,           \* PDUs dispatched so far
    task,           \* the session task: "none" before run, then "running",
                    \* "ok" or "err"
    accepted,       \* events the channel accepted, in send order
    delivered,      \* events Events::next has yielded, in order
    next_pc,        \* "idle" or "pending": an Events::next call in progress
    next_ret,       \* what the last completed Events::next returned
    transport_open, \* TRUE while the outbound channel of the transport is up
    outbound,       \* notification / indication PDUs handed to the transport
    ncalls,         \* notify / indicate calls made so far
    notify_ret,     \* the last notify call and its result
    ind_ret,        \* the last indicate call and its result ("Pending" while
                    \* the call is suspended)
    ind_pc,         \* "idle", "waiting" (indicate suspended) or "acked"
    panicked,       \* TRUE once an Outgoing call has panicked
    conn,           \* the Connection: "accepted", or "consumed" by run
    builds,         \* calls of Registration::build so far
    built,          \* what Registration::build returned to run
    driven,         \* TRUE once the caller polls the task run returned
    att_ret,        \* what the transport's run loop returned: <<>> until then
    task_ret        \* what the task run returned completed with

vars == <<write_tokens, token_map, db, events_tx, events_rx, chan, pc, cur,
          npdu, task, accepted, delivered, next_pc, next_ret, transport_open,
          outbound, ncalls, notify_ret, ind_ret, ind_pc, panicked,
          conn, builds, built, driven, att_ret, task_ret>>

handlerVars == <<db, chan, pc, cur, npdu, accepted>>

eventsVars == <<events_rx, delivered, next_pc, next_ret>>

outgoingVars == <<outbound, ncalls, notify_ret, ind_ret, ind_pc, panicked>>

mapVars == <<write_tokens, token_map>>

runVars == <<conn, builds, built, driven, att_ret, task_ret>>

\* the errors the transport's run loop can end with
AttRunErrors == {"io"}

\* Registration::build: the Database and the two maps of registration r
Registration_build(r) ==
    [db |-> EmptyDb, write_tokens |-> r.write_tokens, token_map |-> r.token_map]

\* nothing built yet
NotBuilt == [db |-> EmptyDb, write_tokens |-> <<>>, token_map |-> <<>>]

\* a dispatch record: the request, what the handler did, and its response
Dispatch(kind, h, e, t, v, m) ==
    [kind |-> kind, handle |-> h, ending |-> e, atype |-> t, value |-> v,
     mtu |-> m,
     events |-> <<>>, dbcalls |-> <<>>, resp |-> <<>>, logged |-> <<>>]

NoDispatch == Dispatch("None", 0, 0, 0, <<>>, 0)

NoCall ==
    [op |-> "None", seq |-> 0, token |-> "", value |-> <<>>, result |-> "None"]

\* Server::accept has returned a Connection; run has not been called
Init ==
    /\ conn = "accepted"
    /\ builds = 0
    /\ built = NotBuilt
    /\ driven = FALSE
    /\ att_ret = <<>>
    /\ task_ret = <<>>
    /\ write_tokens = <<>>
    /\ token_map = <<>>
    /\ db = EmptyDb
    /\ events_tx = FALSE
    /\ events_rx = FALSE
    /\ chan = <<>>
    /\ pc = 0
    /\ cur = NoDispatch
    /\ npdu = 0
    /\ task = "none"
    /\ accepted = <<>>
    /\ delivered = <<>>
    /\ next_pc = "idle"
    /\ next_ret = NextPending
    /\ transport_open = TRUE
    /\ outbound = <<>>
    /\ ncalls = 0
    /\ notify_ret = NoCall
    /\ ind_ret = NoCall
    /\ ind_pc = "idle"
    /\ panicked = FALSE

(* -------------------------- event channel ----------------------------- *)

\* mutant: the channel holds one event and drops what does not fit
events_tx_send_bounded(ch, rx_alive, ev) ==
    IF rx_alive /\ Len(ch) < 1 THEN Append(ch, ev) ELSE ch

\* mpsc::UnboundedSender::send: the event is appended to the backlog while the
\* receiver is alive; with the receiver gone the send fails and the event is
\* dropped (the handler discards the failure with .ok())
events_tx_send(ch, rx_alive, ev) ==
    IF rx_alive THEN Append(ch, ev) ELSE ch

\* mutant: the event is built without the PDU's value
write_events_no_payload(h, v) ==
    IF h \in DOMAIN write_tokens
        THEN << Event_Write(write_tokens[h], <<>>) >>
        ELSE <<>>

\* mutant: an event is sent for every handle, registered or not
write_events_any_handle(h, v) ==
    << Event_Write(IF h \in DOMAIN write_tokens THEN write_tokens[h]
                   ELSE CHOOSE t \in Tokens : TRUE, v) >>

\* `if let Some(token) = self.write_tokens.get(handle)`: the events a write
\* handler sends for a write of value v to handle h
write_events(h, v) ==
    IF h \in DOMAIN write_tokens
        THEN << Event_Write(write_tokens[h], v) >>
        ELSE <<>>

RECURSIVE send_all(_, _, _)
send_all(ch, rx_alive, evs) ==
    IF evs = <<>> THEN ch
    ELSE send_all(events_tx_send(ch, rx_alive, Head(evs)), rx_alive, Tail(evs))

(* ------------------------ GattHandler: requests ----------------------- *)

\* the dispatch loop may hand the next PDU to the handler
CanDispatch ==
    /\ task = "running"
    /\ driven
    /\ pc = 0
    /\ npdu + ncalls < MaxOps

\* mutant: the proposed MTU is clamped to a server maximum
exchange_mtu_return_clamped(client_rx_mtu) ==
    ExchangeMtuResponse_new(IF client_rx_mtu > 517 THEN 517 ELSE client_rx_mtu)

exchange_mtu_return(client_rx_mtu) == ExchangeMtuResponse_new(client_rx_mtu)

find_information_return(res) ==
    IF res.ok THEN CollectResponse("FindInformationResponse", res.body)
    ELSE ErrorResponse_new(res.handle, res.code)

read_by_type_return(res) ==
    IF res.ok THEN CollectResponse("ReadByTypeResponse", res.body)
    ELSE ErrorResponse_new(res.handle, res.code)

read_return(res) ==
    IF res.ok THEN ReadResponse_new(res.body)
    ELSE ErrorResponse_new(res.handle, res.code)

read_by_group_type_return(res) ==
    IF res.ok THEN CollectResponse("ReadByGroupTypeResponse", res.body)
    ELSE ErrorResponse_new(res.handle, res.code)

\* mutant: the outcome of the Database write is ignored
write_request_return_always_ok(res) == WriteResponse_new

write_request_return(res) ==
    IF res.ok THEN WriteResponse_new
    ELSE ErrorResponse_new(res.handle, res.code)

\* a completed request that made the Database call `call` and answered `resp`
Answered(d, call, resp) ==
    [d EXCEPT !.dbcalls = <<call>>, !.resp = <<resp>>]

\* mutant: a non-write handler announces the handle like a write handler
request_events_like_write(h) ==
    IF h \in DOMAIN write_tokens
        THEN <<Event_Write(write_tokens[h], <<>>)>>
        ELSE <<>>

\* the events a non-write handler sends for handle h: these handlers do not
\* use self.events_tx or self.write_tokens
request_events(h) == <<>>

\* what a non-write handler does besides building its response
RequestEffects ==
    /\ chan' = send_all(chan, events_rx, request_events(cur'.handle))
    /\ accepted' = IF events_rx
                      THEN accepted \o request_events(cur'.handle)
                      ELSE accepted
    /\ UNCHANGED <<db, pc, events_tx, task, transport_open>>

handle_exchange_mtu_request ==
    /\ CanDispatch
    /\ \E m \in Mtus :
          cur' = [Dispatch("ExchangeMtuRequest", 0, 0, 0, <<>>, m)
                     EXCEPT !.resp = <<exchange_mtu_return(m)>>]
    /\ npdu' = npdu + 1
    /\ RequestEffects
    /\ UNCHANGED <<runVars, mapVars, eventsVars, outgoingVars>>

handle_find_information_request ==
    /\ CanDispatch
    /\ \E s \in Handles, e \in Handles :
       \E res \in DbRangeResults(db, s, e) :
          cur' = Answered(Dispatch("FindInformationRequest", s, e, 0, <<>>, 0),
                          DbCall("find_information", s, e, FALSE, FALSE, res),
                          find_information_return(res))
    /\ npdu' = npdu + 1
    /\ RequestEffects
    /\ UNCHANGED <<runVars, mapVars, eventsVars, outgoingVars>>

handle_read_by_type_request ==
    /\ CanDispatch
    /\ \E s \in Handles, e \in Handles, t \in AttrTypes :
       \E res \in DbRangeResults(db, s, e) :
          cur' = Answered(Dispatch("ReadByTypeRequest", s, e, t, <<>>, 0),
                          DbCall("read_by_type", s, e, FALSE, FALSE, res),
                          read_by_type_return(res))
    /\ npdu' = npdu + 1
    /\ RequestEffects
    /\ UNCHANGED <<runVars, mapVars, eventsVars, outgoingVars>>

handle_read_request ==
    /\ CanDispatch
    /\ \E h \in Handles :
       \E res \in DbReadResults(db, h) :
          cur' = Answered(Dispatch("ReadRequest", h, h, 0, <<>>, 0),
                          DbCall("read", h, h, FALSE, FALSE, res),
                          read_return(res))
    /\ npdu' = npdu + 1
    /\ RequestEffects
    /\ UNCHANGED <<runVars, mapVars, eventsVars, outgoingVars>>

handle_read_by_group_type_request ==
    /\ CanDispatch
    /\ \E s \in Handles, e \in Handles, t \in AttrTypes :
       \E res \in DbRangeResults(db, s, e) :
          cur' = Answered(Dispatch("ReadByGroupTypeRequest", s, e, t, <<>>, 0),
                          DbCall("read_by_group_type", s, e, FALSE, FALSE, res),
                          read_by_group_type_return(res))
    /\ npdu' = npdu + 1
    /\ RequestEffects
    /\ UNCHANGED <<runVars, mapVars, eventsVars, outgoingVars>>

(* ------------------------- GattHandler: writes ------------------------ *)

WriteKinds == {"WriteRequest", "WriteCommand", "SignedWriteCommand"}

\* mutant: the Database write is made a second time
write_steps_retry == <<"send_event", "db_write", "db_write">>

\* mutant: the Database is written before the event is sent
write_steps_db_first == <<"db_write", "send_event">>

\* the order of the two effects of a write handler: the event is sent, then
\* the Database is written
write_steps == <<"send_event", "db_write">>

\* mutant: every write is passed to the Database as signed
write_signed_always(kind) == TRUE

\* the `signed` argument of the handler's Database write
write_signed(kind) == kind = "SignedWriteCommand"

\* mutant: a command answers like a request
write_finish_always_responds(d, res) ==
    [d EXCEPT !.resp = <<write_request_return(res)>>]

\* what a write handler returns to the dispatch loop after its Database write:
\* the response (if the PDU kind has one) and what it logs
write_finish(d, res) ==
    IF d.kind = "WriteRequest"
        THEN [d EXCEPT !.resp = <<write_request_return(res)>>]
        ELSE [d EXCEPT !.logged =
                 IF res.ok THEN <<>> ELSE << <<res.handle, res.code>> >>]

\* mutant: a send that fails makes the handler return at once
after_send_propagates(i, failed) ==
    IF failed \/ i = Len(write_steps) THEN 0 ELSE i + 1

\* `.ok()` on the send: its Result is discarded, so after step i the handler
\* goes on to its next step whether or not the send failed
after_send(i, failed) == IF i = Len(write_steps) THEN 0 ELSE i + 1

\* mutant: the lookup takes the token out of the map
write_tokens_after_take(h) ==
    [k \in DOMAIN write_tokens \ {h} |-> write_tokens[k]]

\* self.write_tokens.get(handle) borrows the map: it is the same afterwards
write_tokens_after_get(h) == write_tokens

\* step i of the write handler that is processing d
WriteStep(d, i) ==
    /\ IF write_steps[i] = "send_event"
          THEN LET evs == write_events(d.handle, d.value) IN
               /\ pc' = after_send(i, evs # <<>> /\ ~events_rx)
               /\ write_tokens' = write_tokens_after_get(d.handle)
               /\ chan' = send_all(chan, events_rx, evs)
               /\ accepted' = IF events_rx THEN accepted \o evs ELSE accepted
               /\ cur' = [d EXCEPT !.events = d.events \o evs]
               /\ db' = db
          ELSE \E res \in DbWriteResults :
               /\ pc' = IF i = Len(write_steps) THEN 0 ELSE i + 1
               /\ db' = DbAfterWrite(db, d.handle, d.value, res)
               /\ cur' = write_finish(
                            [d EXCEPT !.dbcalls = Append(d.dbcalls,
                                DbCall("write", d.handle, d.handle, FALSE,
                                       write_signed(d.kind), res))],
                            res)
               /\ UNCHANGED <<chan, accepted, write_tokens>>
    /\ UNCHANGED <<events_tx, task, transport_open, token_map>>
    /\ UNCHANGED <<runVars, eventsVars, outgoingVars>>

\* the dispatch loop hands a write PDU to its handler, or the handler goes on
handle_write(kind) ==
    \/ /\ CanDispatch
       /\ npdu' = npdu + 1
       /\ \E h \in Handles, v \in Values :
             WriteStep(Dispatch(kind, h, h, 0, v, 0), 1)
    \/ /\ pc > 0
       /\ cur.kind = kind
       /\ npdu' = npdu
       /\ WriteStep(cur, pc)

handle_write_request == handle_write("WriteRequest")

handle_write_command == handle_write("WriteCommand")

handle_signed_write_command == handle_write("SignedWriteCommand")

(* ------------------------------ Events -------------------------------- *)

\* mutant: the newest buffered event is yielded first
recv_newest_first(ch, tx_alive) ==
    IF ch # <<>>
        THEN [ready |-> TRUE, tag |-> "Some", event |-> <<ch[Len(ch)]>>,
              rest |-> SubSeq(ch, 1, Len(ch) - 1)]
    ELSE IF ~tx_alive
        THEN [ready |-> TRUE, tag |-> "None", event |-> <<>>, rest |-> ch]
    ELSE [ready |-> FALSE, tag |-> "NoCall", event |-> <<>>, rest |-> ch]

\* mutant: end-of-stream is reported as soon as the sender is gone
recv_none_on_close(ch, tx_alive) ==
    IF ~tx_alive
        THEN [ready |-> TRUE, tag |-> "None", event |-> <<>>, rest |-> ch]
    ELSE IF ch # <<>>
        THEN [ready |-> TRUE, tag |-> "Some", event |-> <<Head(ch)>>, rest |-> Tail(ch)]
    ELSE [ready |-> FALSE, tag |-> "NoCall", event |-> <<>>, rest |-> ch]

\* mpsc::UnboundedReceiver::recv on backlog ch: the oldest buffered event, or
\* None once the backlog is empty and the sender is gone; otherwise the call
\* stays suspended (ready = FALSE)
recv(ch, tx_alive) ==
    IF ch # <<>>
        THEN [ready |-> TRUE, tag |-> "Some", event |-> <<Head(ch)>>, rest |-> Tail(ch)]
    ELSE IF ~tx_alive
        THEN [ready |-> TRUE, tag |-> "None", event |-> <<>>, rest |-> ch]
    ELSE [ready |-> FALSE, tag |-> "NoCall", event |-> <<>>, rest |-> ch]

\* the application calls Events::next and the call suspends in recv().await
Events_next_call ==
    /\ events_rx
    /\ next_pc = "idle"
    /\ next_pc' = "pending"
    /\ UNCHANGED <<events_rx, delivered, next_ret>>
    /\ UNCHANGED <<events_tx, task, transport_open>>
    /\ UNCHANGED <<runVars, mapVars, handlerVars, outgoingVars>>

\* the suspended Events::next call completes
Events_next ==
    /\ events_rx
    /\ next_pc = "pending"
    /\ LET r == recv(chan, events_tx) IN
          /\ r.ready
          /\ chan' = r.rest
          /\ delivered' = delivered \o r.event
          /\ next_ret' = [tag |-> r.tag, event |-> r.event]
    /\ next_pc' = "idle"
    /\ UNCHANGED <<events_rx, events_tx, task, transport_open>>
    /\ UNCHANGED <<db, pc, cur, npdu, accepted>>
    /\ UNCHANGED <<runVars, mapVars, outgoingVars>>

\* the application drops Events: the receiver closes and its backlog is freed
Events_drop ==
    /\ events_rx
    /\ events_rx' = FALSE
    /\ chan' = <<>>
    /\ next_pc' = "idle"
    /\ UNCHANGED <<delivered, next_ret>>
    /\ UNCHANGED <<events_tx, task, transport_open>>
    /\ UNCHANGED <<db, pc, cur, npdu, accepted>>
    /\ UNCHANGED <<runVars, mapVars, outgoingVars>>

(* --------------------------- session task ----------------------------- *)

\* mutant: run borrows the Connection and leaves it runnable
conn_after_run_borrowed == "accepted"

\* self by value: run consumes the Connection
conn_after_run == "consumed"

\* Connection::run: the registration is built once, the handler gets the
\* Database, the handle->token map and the sender, Outgoing gets the
\* token->handle map, Events gets the receiver; the task has not been polled
run ==
    /\ conn = "accepted"
    /\ conn' = conn_after_run
    /\ \E r \in Registrations :
          /\ built' = Registration_build(r)
          /\ db' = Registration_build(r).db
          /\ write_tokens' = Registration_build(r).write_tokens
          /\ token_map' = Registration_build(r).token_map
    /\ builds' = builds + 1
    /\ events_tx' = TRUE
    /\ events_rx' = TRUE
    /\ chan' = <<>>
    /\ task' = "running"
    /\ driven' = FALSE
    /\ UNCHANGED <<att_ret, task_ret, transport_open>>
    /\ UNCHANGED <<pc, cur, npdu, accepted, delivered, next_pc, next_ret>>
    /\ UNCHANGED outgoingVars

\* the caller awaits (or spawns) the task run returned
drive ==
    /\ task = "running"
    /\ ~driven
    /\ driven' = TRUE
    /\ UNCHANGED <<conn, builds, built, att_ret, task_ret>>
    /\ UNCHANGED <<events_tx, task, transport_open>>
    /\ UNCHANGED <<mapVars, handlerVars, eventsVars, outgoingVars>>

\* mutant: the transport's error is dropped and the task reports success
task_return_always_ok(r) == <<"Ok">>

\* `if let Err(e) = task.await { Err(e.into()) } else { Ok(()) }`
task_return(r) ==
    IF r[1] = "Err" THEN <<"RunError", r[2]>> ELSE <<"Ok">>

\* the transport's run loop ends (peer disconnect, transport error or
\* shutdown): the task completes, the handler and its sender are dropped and
\* the outbound channel closes
run_ends ==
    /\ task = "running"
    /\ driven
    /\ pc = 0
    /\ \E r \in {<<"Ok">>} \cup {<<"Err", e>> : e \in AttRunErrors} :
          /\ att_ret' = r
          /\ task_ret' = task_return(r)
          /\ task' = IF task_return(r)[1] = "Ok" THEN "ok" ELSE "err"
    /\ events_tx' = FALSE
    /\ transport_open' = FALSE
    /\ UNCHANGED <<conn, builds, built, driven>>
    /\ UNCHANGED <<mapVars, handlerVars, eventsVars, outgoingVars>>

(* ----------------------------- Outgoing ------------------------------- *)

Pdu(kind, h, v) == [kind |-> kind, handle |-> h, value |-> v]

\* the n-th call of the session, its arguments and its result
CallRet(op, n, token, v, result) ==
    [op |-> op, seq |-> n, token |-> token, value |-> v, result |-> result]

\* mutant: the handle of some registered token is used, whatever the token
resolve_any(token) == token_map[CHOOSE t \in DOMAIN token_map : TRUE]

\* self.token_map.get(token).unwrap() where the token is registered
resolve(token) == token_map[token]

\* mutant: the channel is tried first, the missing token panics only while
\* the transport is open
unwrap_panics_when_open(token) ==
    token \notin DOMAIN token_map /\ transport_open

\* self.token_map.get(token).unwrap(): get yields None for a token the
\* registration never declared, and unwrap of None panics
unwrap_panics(token) == token \notin DOMAIN token_map

\* Outbound::notify: the PDU is queued for the peer unless the channel to the
\* transport is closed
Outbound_notify(h, v) ==
    IF transport_open
        THEN [ok |-> TRUE, out |-> Append(outbound, Pdu("Notification", h, v))]
        ELSE [ok |-> FALSE, out |-> outbound]

\* Outbound::indicate up to its suspension: the PDU is queued for the peer
\* unless the channel to the transport is closed
Outbound_indicate(h, v) ==
    IF transport_open
        THEN [ok |-> TRUE, out |-> Append(outbound, Pdu("Indication", h, v))]
        ELSE [ok |-> FALSE, out |-> outbound]

\* mutant: the failed send is discarded and the call reports success
notify_return_swallowed(ok) == "Ok"

\* .map_err(|_| OutgoingError)?; Ok(())
notify_return(ok) == IF ok THEN "Ok" ELSE "OutgoingError"

notify ==
    /\ conn = "consumed"
    /\ ~panicked
    /\ npdu + ncalls < MaxOps
    /\ ncalls' = ncalls + 1
    /\ \E token \in Tokens, v \in Values :
          IF unwrap_panics(token)
             THEN /\ panicked' = TRUE
                  /\ notify_ret' = CallRet("notify", ncalls + 1, token, v, "panic")
                  /\ outbound' = outbound
             ELSE LET r == Outbound_notify(resolve(token), v) IN
                  /\ outbound' = r.out
                  /\ notify_ret' = CallRet("notify", ncalls + 1, token, v, notify_return(r.ok))
                  /\ panicked' = panicked
    /\ UNCHANGED <<ind_ret, ind_pc, events_tx, task, transport_open>>
    /\ UNCHANGED <<runVars, mapVars, handlerVars, eventsVars>>

\* mutant: the call does not wait for the confirmation
indicate_return_no_wait(ipc, open) ==
    IF ~open /\ ipc # "acked" THEN <<"OutgoingError">> ELSE <<"Ok">>

\* how a suspended indicate call resolves: <<>> while it stays suspended
indicate_return(ipc, open) ==
    IF ipc = "acked" THEN <<"Ok">>
    ELSE IF ~open THEN <<"OutgoingError">>
    ELSE <<>>

\* the application calls indicate: it panics, fails at once, or sends the
\* indication and suspends
indicate_call ==
    /\ conn = "consumed"
    /\ ~panicked
    /\ npdu + ncalls < MaxOps
    /\ ind_pc = "idle"
    /\ ncalls' = ncalls + 1
    /\ \E token \in Tokens, v \in Values :
          IF unwrap_panics(token)
             THEN /\ panicked' = TRUE
                  /\ ind_ret' = CallRet("indicate", ncalls + 1, token, v, "panic")
                  /\ UNCHANGED <<outbound, ind_pc>>
             ELSE LET r == Outbound_indicate(resolve(token), v) IN
                  /\ outbound' = r.out
                  /\ ind_ret' = CallRet("indicate", ncalls + 1, token, v,
                                    IF r.ok THEN "Pending" ELSE "OutgoingError")
                  /\ ind_pc' = IF r.ok THEN "waiting" ELSE "idle"
                  /\ panicked' = panicked
    /\ UNCHANGED <<notify_ret, events_tx, task, transport_open>>
    /\ UNCHANGED <<runVars, mapVars, handlerVars, eventsVars>>

\* the peer confirms the indication
peer_confirm ==
    /\ ind_pc = "waiting"
    /\ transport_open
    /\ ind_pc' = "acked"
    /\ UNCHANGED <<outbound, ncalls, notify_ret, ind_ret, panicked>>
    /\ UNCHANGED <<events_tx, task, transport_open>>
    /\ UNCHANGED <<runVars, mapVars, handlerVars, eventsVars>>

\* the suspended indicate call is resumed and returns
indicate ==
    /\ ind_pc # "idle"
    /\ indicate_return(ind_pc, transport_open) # <<>>
    /\ ind_ret' = [ind_ret EXCEPT !.result = indicate_return(ind_pc, transport_open)[1]]
    /\ ind_pc' = "idle"
    /\ UNCHANGED <<outbound, ncalls, notify_ret, panicked>>
    /\ UNCHANGED <<events_tx, task, transport_open>>
    /\ UNCHANGED <<runVars, mapVars, handlerVars, eventsVars>>

(* --------------------------- specification ---------------------------- *)

Next ==
    \/ handle_exchange_mtu_request
    \/ handle_find_information_request
    \/ handle_read_by_type_request
    \/ handle_read_request
    \/ handle_read_by_group_type_request
    \/ handle_write_request
    \/ handle_write_command
    \/ handle_signed_write_command
    \/ Events_next_call
    \/ Events_next
    \/ Events_drop
    \/ run
    \/ drive
    \/ run_ends
    \/ notify
    \/ indicate_call
    \/ peer_confirm
    \/ indicate

Spec == Init /\ [][Next]_vars

\* A suspended Events::next or indicate call is resumed by the runtime once
\* the channel it awaits has something for it.
LiveSpec == Spec /\ WF_vars(Events_next) /\ WF_vars(indicate)

(* ------------------------------ claims -------------------------------- *)

\* the dispatch in `cur` has returned to the dispatch loop
Completed == pc = 0 /\ cur.kind # "None"

RegisteredWrite ==
    cur.kind \in WriteKinds /\ cur.handle \in DOMAIN write_tokens

\* C1: a Write-Request, Write-Command or Signed-Write-Command to a handle of
\* the handle->token map sends exactly one Write event, carrying the token
\* mapped to that handle and the PDU's value, whether the Database write that
\* follows succeeds or fails; while Events is alive it is the newest event the
\* channel holds or has delivered.
C1_RegisteredWriteSendsOneEvent ==
    (Completed /\ RegisteredWrite) =>
        /\ cur.events = << Event_Write(write_tokens[cur.handle], cur.value) >>
        /\ events_rx =>
              /\ accepted # <<>>
              /\ accepted[Len(accepted)] = cur.events[1]
              /\ (delivered \o chan)[Len(delivered) + Len(chan)] = cur.events[1]

\* a write to a registered handle whose Database write failed
C1_Witness ==
    /\ Completed
    /\ RegisteredWrite
    /\ events_rx
    /\ Len(cur.dbcalls) = 1
    /\ ~cur.dbcalls[1].result.ok

\* C2: a step of a write handler for a handle that is not in the handle->token
\* map sends no event and leaves the event channel as it is.
C2_UnregisteredWriteSendsNothing ==
    [][ ( /\ cur' # cur
          /\ cur'.kind \in WriteKinds
          /\ cur'.handle \notin DOMAIN write_tokens )
        => ( /\ cur'.events = <<>>
             /\ chan' = chan
             /\ accepted' = accepted ) ]_vars

\* a write to an unregistered handle has been processed while Events is alive
C2_Witness ==
    /\ Completed
    /\ cur.kind \in WriteKinds
    /\ cur.handle \notin DOMAIN write_tokens
    /\ events_rx
    /\ Len(cur.dbcalls) = 1

RequestKinds ==
    {"FindInformationRequest", "ReadByTypeRequest", "ReadRequest",
     "ReadByGroupTypeRequest", "WriteRequest"}

SuccessTag(kind) ==
    CASE kind = "FindInformationRequest" -> "FindInformationResponse"
      [] kind = "ReadByTypeRequest" -> "ReadByTypeResponse"
      [] kind = "ReadRequest" -> "ReadResponse"
      [] kind = "ReadByGroupTypeRequest" -> "ReadByGroupTypeResponse"
      [] kind = "WriteRequest" -> "WriteResponse"

\* C3: a request answered from find_information, read_by_type, read,
\* read_by_group_type or the write of a Write-Request made one Database call;
\* if that call failed with (handle, code) the response is the ATT error with
\* the same handle and code, and the response is the request's success
\* response exactly when the call succeeded.
C3_DatabaseErrorVerbatim ==
    (Completed /\ cur.kind \in RequestKinds) =>
        /\ Len(cur.dbcalls) = 1
        /\ Len(cur.resp) = 1
        /\ LET res == cur.dbcalls[1].result
               r == cur.resp[1]
           IN /\ ~res.ok => /\ r.tag = "ErrorResponse"
                            /\ r.handle = res.handle
                            /\ r.code = res.code
              /\ res.ok <=> r.tag = SuccessTag(cur.kind)

\* a Write-Request failed with an error naming another handle than the
\* request's
C3_Witness ==
    /\ Completed
    /\ cur.kind = "WriteRequest"
    /\ Len(cur.dbcalls) = 1
    /\ ~cur.dbcalls[1].result.ok
    /\ cur.dbcalls[1].result.handle # cur.handle
    /\ cur.dbcalls[1].result.code = "WriteNotPermitted"

CommandKinds == {"WriteCommand", "SignedWriteCommand"}

\* C4: a Write-Command or Signed-Write-Command never has a response or error
\* PDU, at any point of its handling; when its Database write fails the error
\* is logged and nothing else.
C4_CommandsNeverRespond ==
    (cur.kind \in CommandKinds) =>
        /\ cur.resp = <<>>
        /\ (Completed /\ ~cur.dbcalls[1].result.ok) =>
               cur.logged = << <<cur.dbcalls[1].result.handle,
                                 cur.dbcalls[1].result.code>> >>

\* a Signed-Write-Command whose Database write failed
C4_Witness ==
    /\ Completed
    /\ cur.kind = "SignedWriteCommand"
    /\ ~cur.dbcalls[1].result.ok
    /\ cur.logged # <<>>

IsPrefix(a, b) == Len(a) <= Len(b) /\ SubSeq(b, 1, Len(a)) = a

\* C5: the events Events::next has yielded, followed by the events still
\* buffered, are the events the handlers sent, in the order the write PDUs
\* were processed: nothing is reordered, duplicated or lost while Events is
\* alive, and what was yielded stays a prefix of what was sent afterwards.
C5_EventsFifo ==
    /\ IsPrefix(delivered, accepted)
    /\ events_rx => delivered \o chan = accepted

\* two different events were sent; the first has been yielded, the second is
\* still buffered
C5_Witness ==
    /\ Len(accepted) = 2
    /\ accepted[1] # accepted[2]
    /\ Len(delivered) = 1
    /\ Len(chan) = 1

\* C6: for a write PDU to a registered handle, the Write event has been sent
\* whenever the Database write has been attempted or the response returned:
\* the event comes first.
C6_EventBeforeDatabaseWrite ==
    (RegisteredWrite /\ (cur.dbcalls # <<>> \/ cur.resp # <<>>)) =>
        cur.events # <<>>

\* the event of a Write-Request has been sent and is already buffered while
\* its Database write has not been attempted yet
C6_Witness ==
    /\ pc > 0
    /\ cur.kind = "WriteRequest"
    /\ cur.events # <<>>
    /\ cur.dbcalls = <<>>
    /\ chan # <<>>

\* C7: an Exchange-MTU request is answered with an Exchange-MTU response that
\* carries the MTU the client proposed, whatever the value.
C7_ExchangeMtuEchoes ==
    (cur.kind = "ExchangeMtuRequest") =>
        /\ Len(cur.resp) = 1
        /\ cur.resp[1].tag = "ExchangeMtuResponse"
        /\ cur.resp[1].mtu = cur.mtu

\* the client proposed the largest MTU
C7_Witness ==
    /\ cur.kind = "ExchangeMtuRequest"
    /\ cur.mtu = 65535
    /\ cur.resp # <<>>

\* C8: Events::next returns None only when the handler is gone and every
\* event sent before has been yielded; and a next call that is suspended once
\* the handler is gone and the backlog is empty returns None (unless the
\* application drops Events).
C8_EndOfStreamAfterDrain ==
    /\ [](next_ret.tag = "None" =>
             /\ ~events_tx
             /\ chan = <<>>
             /\ delivered = accepted)
    /\ ((next_pc = "pending" /\ ~events_tx /\ chan = <<>>)
           ~> (next_ret.tag = "None" \/ ~events_rx))

\* None was returned after an event that was buffered had been yielded
C8_Witness ==
    /\ next_ret.tag = "None"
    /\ delivered # <<>>
    /\ events_rx

\* C9: a notify call with a registered token on an open transport hands the
\* transport exactly one more PDU, the notification of the handle the
\* token->handle map gives the token with the call's payload, and returns Ok
\* in the same step (it never suspends).
C9_NotifySendsOnePdu ==
    [][ ( /\ notify_ret' # notify_ret
          /\ notify_ret'.token \in DOMAIN token_map
          /\ transport_open )
        => ( /\ outbound' = Append(outbound,
                    [kind |-> "Notification",
                     handle |-> token_map[notify_ret'.token],
                     value |-> notify_ret'.value])
             /\ notify_ret'.result = "Ok"
             /\ ind_pc' = ind_pc ) ]_vars

\* notify("battery", [0x5A]) with "battery" registered for handle 0x002A
C9_Witness ==
    /\ notify_ret = [op |-> "notify", seq |-> 1, token |-> "battery",
                     value |-> <<90>>, result |-> "Ok"]
    /\ token_map["battery"] = 42
    /\ outbound = << [kind |-> "Notification", handle |-> 42, value |-> <<90>>] >>

\* C10: an indicate call that has sent its indication stays suspended until it
\* resolves; it resolves to Ok only after the peer's confirmation, to the
\* channel error only once the transport is down, and in no other way; once
\* the transport is down an unconfirmed call does resolve to the error.
C10_IndicateWaitsForConfirmation ==
    /\ [](ind_pc # "idle" => ind_ret.result = "Pending")
    /\ [][ (ind_pc # "idle" /\ ind_pc' = "idle") =>
              \/ ind_pc = "acked" /\ ind_ret'.result = "Ok"
              \/ ind_pc = "waiting" /\ ~transport_open
                    /\ ind_ret'.result = "OutgoingError" ]_vars
    /\ ((ind_pc = "waiting" /\ ~transport_open)
           ~> (ind_pc = "idle" /\ ind_ret.result = "OutgoingError"))

\* the only call made was an indicate that sent its indication and later
\* resolved to the channel error
C10_Witness ==
    /\ ind_ret.seq = 1
    /\ ncalls = 1
    /\ ind_pc = "idle"
    /\ ind_ret.result = "OutgoingError"
    /\ Len(outbound) = 1
    /\ outbound[1].kind = "Indication"

\* a notify call was made in this step
NotifyCalled == notify_ret' # notify_ret

\* an indicate call was made in this step (its later resumption keeps seq)
IndicateCalled == ind_ret'.seq # ind_ret.seq

\* C11: once the channel to the transport is closed it stays closed, and
\* every notify and every indicate called with a registered token from then
\* on returns OutgoingError, leaves the outbound queue as it was, and does
\* not panic, so the Outgoing value can be called again
C11_ClosedTransportYieldsOutgoingError ==
    [][/\ (~transport_open => ~transport_open')
       /\ (NotifyCalled /\ ~transport_open
              /\ notify_ret'.token \in DOMAIN token_map)
            => /\ notify_ret'.result = "OutgoingError"
               /\ outbound' = outbound
               /\ ~panicked'
       /\ (IndicateCalled /\ ~transport_open
              /\ ind_ret'.token \in DOMAIN token_map)
            => /\ ind_ret'.result = "OutgoingError"
               /\ ind_pc' = "idle"
               /\ outbound' = outbound
               /\ ~panicked']_vars

\* two calls after the transport closed, both failed, nothing was sent
C11_Witness ==
    /\ ~transport_open
    /\ notify_ret.seq = 1 /\ notify_ret.result = "OutgoingError"
    /\ ind_ret.seq = 2 /\ ind_ret.result = "OutgoingError"
    /\ notify_ret.token \in DOMAIN token_map
    /\ ind_ret.token \in DOMAIN token_map
    /\ outbound = <<>>
    /\ ~panicked

\* C12: notify or indicate called with a token the registration never
\* declared panics: no error value is returned and nothing is sent, whether
\* the transport is open or closed
C12_UnregisteredTokenPanics ==
    [][/\ (NotifyCalled /\ notify_ret'.token \notin DOMAIN token_map)
            => /\ notify_ret'.result = "panic"
               /\ panicked'
               /\ outbound' = outbound
       /\ (IndicateCalled /\ ind_ret'.token \notin DOMAIN token_map)
            => /\ ind_ret'.result = "panic"
               /\ panicked'
               /\ outbound' = outbound
               /\ ind_pc' = ind_pc]_vars

\* a call failed on the closed transport, then an unregistered token panicked
C12_Witness ==
    /\ notify_ret.seq = 1 /\ notify_ret.result = "OutgoingError"
    /\ ind_ret.seq = 2 /\ ind_ret.result = "panic"
    /\ ind_ret.token \notin DOMAIN token_map
    /\ panicked
    /\ outbound = <<>>

\* C13: a Connection is run at most once; that run calls Registration::build
\* exactly once, and the Database and the two maps it returned are the ones
\* the handler and Outgoing hold from then until the session is over
C13_RunIsOneShot ==
    [][/\ (builds' # builds)
            => /\ conn = "accepted" /\ conn' = "consumed"
               /\ builds = 0 /\ builds' = 1
               /\ \E r \in Registrations : built' = Registration_build(r)
               /\ db' = built'.db
       /\ (conn = "consumed")
            => /\ conn' = "consumed"
               /\ builds' = 1
               /\ built' = built
       /\ (conn' = "consumed")
            => /\ write_tokens' = built'.write_tokens
               /\ token_map' = built'.token_map]_vars

\* a whole session ran on the one registration that was built
C13_Witness ==
    /\ conn = "consumed"
    /\ builds = 1
    /\ npdu = MaxOps
    /\ task \in {"ok", "err"}
    /\ write_tokens = built.write_tokens
    /\ token_map = built.token_map
    /\ DOMAIN write_tokens # {}

\* C14: the task completes with Ok exactly when the transport's run loop
\* returned Ok, and with RunError wrapping the transport's error exactly
\* when the loop returned that error; a request is dispatched and an event
\* is emitted only while the running task is being driven
C14_TaskResultMirrorsTransport ==
    [][/\ (task_ret' # task_ret)
            => /\ task = "running" /\ driven
               /\ task_ret = <<>> /\ att_ret = <<>>
               /\ att_ret' # <<>>
               /\ (task_ret' = <<"Ok">>) <=> (att_ret' = <<"Ok">>)
               /\ \A e \in AttRunErrors :
                     (task_ret' = <<"RunError", e>>) <=> (att_ret' = <<"Err", e>>)
               /\ task' = IF att_ret' = <<"Ok">> THEN "ok" ELSE "err"
       /\ (att_ret' # att_ret) => (task_ret' # task_ret)
       /\ (cur' # cur \/ npdu' # npdu \/ accepted' # accepted)
            => (task = "running" /\ driven)]_vars

\* the loop served a registered write, then failed; the task wraps the error
C14_Witness ==
    /\ att_ret = <<"Err", "io">>
    /\ task_ret = <<"RunError", "io">>
    /\ task = "err"
    /\ accepted # <<>>
    /\ driven

\* the send of a write handler failed in this step: there was an event to
\* send and Events had been dropped
SendFailed ==
    /\ cur' # cur
    /\ cur'.kind \in WriteKinds
    /\ cur'.events # <<>>
    /\ cur'.dbcalls = <<>>
    /\ ~events_rx

\* C15: a write handler whose event cannot be delivered because Events was
\* dropped goes on as if it had been: the step returns nothing and the
\* Database write follows for all three write kinds, and a Write-Request's
\* response is determined by the outcome of that write alone
C15_FailedSendIsIgnored ==
    [][/\ SendFailed
            => /\ pc' > 0
               /\ cur'.resp = <<>> /\ cur'.logged = <<>>
               /\ chan' = chan /\ accepted' = accepted
               /\ db' = db
       /\ (pc > 0 /\ cur' # cur)
            => /\ pc' = 0
               /\ cur'.kind = cur.kind
               /\ cur'.events = cur.events
               /\ Len(cur'.dbcalls) = 1
               /\ cur'.dbcalls[1].op = "write"
               /\ cur'.dbcalls[1].handle = cur.handle
               /\ (cur.kind = "WriteRequest")
                    => cur'.resp =
                         << IF cur'.dbcalls[1].result.ok
                               THEN WriteResponse_new
                               ELSE ErrorResponse_new(
                                        cur'.dbcalls[1].result.handle,
                                        cur'.dbcalls[1].result.code) >>]_vars

\* Events was dropped before any event was accepted; a Write-Request to a
\* registered handle was still written to the Database and acknowledged
C15_Witness ==
    /\ Completed
    /\ cur.kind = "WriteRequest"
    /\ RegisteredWrite
    /\ ~events_rx
    /\ accepted = <<>>
    /\ cur.events # <<>>
    /\ Len(cur.dbcalls) = 1
    /\ cur.dbcalls[1].result.ok
    /\ cur.resp = <<WriteResponse_new>>
    /\ db[cur.handle] = cur.value

\* C16: every Database call a handler makes passes authenticated = false;
\* the second flag is true for the write of a Signed-Write-Command and false
\* for every read and for the writes of Write-Request and Write-Command, the
\* same for every PDU of the session whatever was dispatched before it
C16_FixedAccessFlags ==
    \A i \in 1..Len(cur.dbcalls) :
        /\ cur.dbcalls[i].authenticated = FALSE
        /\ cur.dbcalls[i].authorized
              <=> (cur.kind = "SignedWriteCommand" /\ cur.dbcalls[i].op = "write")

\* the last PDU of a session is a Signed-Write-Command: its write is signed
C16_Witness ==
    /\ Completed
    /\ npdu = MaxOps
    /\ cur.kind = "SignedWriteCommand"
    /\ Len(cur.dbcalls) = 1
    /\ cur.dbcalls[1].op = "write"
    /\ cur.dbcalls[1].authorized
    /\ ~cur.dbcalls[1].authenticated

\* C17: nothing is retried: while a PDU is handled at most one Database call
\* and at most one event send have been made for it; once it is handled it
\* has made exactly one Database call (none for Exchange-MTU), whether that
\* call succeeded or failed, and for the three write kinds that call is the
\* write of the PDU's handle, also when the handle has no token
C17_OneDatabaseCallPerPdu ==
    /\ Len(cur.dbcalls) <= 1
    /\ Len(cur.events) <= 1
    /\ Completed =>
          /\ Len(cur.dbcalls) = IF cur.kind = "ExchangeMtuRequest" THEN 0 ELSE 1
          /\ (cur.kind \in WriteKinds)
               => /\ cur.dbcalls[1].op = "write"
                  /\ cur.dbcalls[1].handle = cur.handle
                  /\ Len(cur.events) =
                        IF cur.handle \in DOMAIN write_tokens THEN 1 ELSE 0

\* a write to a handle without a token failed in the Database: one call was
\* made and no event was sent
C17_Witness ==
    /\ Completed
    /\ cur.kind \in WriteKinds
    /\ cur.handle \notin DOMAIN write_tokens
    /\ Len(cur.dbcalls) = 1
    /\ ~cur.dbcalls[1].result.ok
    /\ cur.events = <<>>
    /\ db = EmptyDb

\* the handler of a write to a registered handle made its send in this step
RegisteredSend ==
    /\ cur' # cur
    /\ cur'.kind \in WriteKinds
    /\ cur'.handle \in DOMAIN write_tokens
    /\ cur'.dbcalls = <<>>

\* C18: while Events is alive the channel keeps every event: each write to
\* a registered handle adds exactly one event to the backlog whatever its
\* length, and the handler goes on; each dequeue removes exactly one; nothing
\* else changes it, so the backlog is the events sent and not yet dequeued
C18_UnboundedBacklog ==
    [][events_rx' =>
         /\ Len(chan') = Len(chan)
                          + (IF RegisteredSend THEN 1 ELSE 0)
                          - (IF delivered' # delivered THEN 1 ELSE 0)
         /\ RegisteredSend => (pc' > 0 /\ chan' = chan \o cur'.events)
         /\ Len(chan') = Len(accepted') - Len(delivered')]_vars

\* MaxOps writes to registered handles are queued and none was dequeued
C18_Witness ==
    /\ events_rx
    /\ Len(chan) = MaxOps
    /\ delivered = <<>>
    /\ Completed
    /\ RegisteredWrite

\* an Outgoing or an Events operation acted in this step
OutgoingOrEventsStep ==
    \/ notify_ret' # notify_ret
    \/ ind_ret' # ind_ret
    \/ ind_pc' # ind_pc
    \/ next_pc' # next_pc
    \/ delivered' # delivered
    \/ events_rx' # events_rx /\ conn = "consumed"

\* C19: once run has built them the two maps never change, whatever request,
\* notify, indicate or next is executed; the Database changes only in a step
\* of a write handler of the running session, never in a step of Outgoing or
\* of Events
C19_MapsFixedDatabaseOwned ==
    [][/\ (conn = "consumed")
            => (write_tokens' = write_tokens /\ token_map' = token_map)
       /\ (db' # db)
            => /\ task = "running" /\ driven
               /\ cur' # cur
               /\ cur'.kind \in WriteKinds
               /\ Len(cur'.dbcalls) = 1
               /\ ~OutgoingOrEventsStep
       /\ OutgoingOrEventsStep => (db' = db /\ cur' = cur)]_vars

\* a write reached the Database, its event was dequeued and a notification
\* was sent; the maps are those the registration was built with
C19_Witness ==
    /\ conn = "consumed"
    /\ db # EmptyDb
    /\ delivered # <<>>
    /\ notify_ret.result = "Ok"
    /\ write_tokens = built.write_tokens
    /\ token_map = built.token_map

NonWriteKinds ==
    {"ExchangeMtuRequest", "FindInformationRequest", "ReadByTypeRequest",
     "ReadRequest", "ReadByGroupTypeRequest"}

\* C20: handling an Exchange-MTU, Find-Information, Read-By-Type, Read or
\* Read-By-Group-Type request leaves the event channel and the Database
\* contents as they were, also when the request names a handle of the
\* handle->token map; none of them calls the Database write, and
\* Exchange-MTU makes no Database call at all
C20_NonWriteRequestsSendNoEvent ==
    [][(cur' # cur /\ cur'.kind \in NonWriteKinds)
         => /\ chan' = chan
            /\ accepted' = accepted
            /\ cur'.events = <<>>
            /\ db' = db
            /\ \A i \in 1..Len(cur'.dbcalls) : cur'.dbcalls[i].op # "write"
            /\ (cur'.kind = "ExchangeMtuRequest") => (cur'.dbcalls = <<>>)]_vars

\* a Read-Request for a handle that has a token was answered while Events
\* was alive: no event was sent
C20_Witness ==
    /\ Completed
    /\ cur.kind = "ReadRequest"
    /\ cur.handle \in DOMAIN write_tokens
    /\ events_rx
    /\ accepted = <<>>
    /\ chan = <<>>
    /\ Len(cur.dbcalls) = 1
    /\ cur.dbcalls[1].op = "read"

====
